---- MODULE Spec2Model ----
(***************************************************************************)
(* Model of statistical_test.py: normality_test, correlation, cramers_v    *)
(* and generate_sym_matrix.  Every function is stateless; a state of the   *)
(* model is the record of the last call: its arguments, what the library   *)
(* routines returned to it (lib), what it printed (out), which library     *)
(* routines it invoked and in which order (calls), what it returned (ret)  *)
(* and the exception it ended with (err).                                  *)
(*                                                                         *)
(* Floating point numbers are fixed point with three decimals (0.05 is     *)
(* Num(50)) plus the two non-finite values NaN and Inf.  Comparisons       *)
(* follow IEEE-754: every comparison with NaN is false.                    *)
(***************************************************************************)
EXTENDS Integers, Sequences, FiniteSets, TLC

VARIABLES fn, args, lib, out, warns, calls, ret, err

vars == <<fn, args, lib, out, warns, calls, ret, err>>

(* ------------------------------ bounds -------------------------------- *)
\* largest number of categories of a categorical sample given to cramers_v
MaxCat == 6
\* longest column list given to generate_sym_matrix
MaxCols == 2

(* --------------------------- floating point --------------------------- *)
Num(x) == [k |-> "num", x |-> x]
NaN == [k |-> "nan", x |-> 0]
Inf == [k |-> "inf", x |-> 0]

IsNan(a) == a.k = "nan"
IsFinite(a) == a.k = "num"

\* a < b, a <= b, a > b, a == b on floats (false as soon as one side is NaN)
FLt(a, b) ==
    IF IsNan(a) \/ IsNan(b) THEN FALSE
    ELSE IF a.k = "inf" THEN FALSE
    ELSE IF b.k = "inf" THEN TRUE
    ELSE a.x < b.x

FEq(a, b) ==
    IF IsNan(a) \/ IsNan(b) THEN FALSE
    ELSE IF a.k = "inf" \/ b.k = "inf" THEN a.k = b.k
    ELSE a.x = b.x

\* a <= b written as a < b
FLeStrict(a, b) == FLt(a, b)

FLe(a, b) == FLt(a, b) \/ FEq(a, b)

FGt(a, b) == FLt(b, a)

\* alpha*100 without the scaling
Times100Unscaled(a) == a

\* alpha*100
Times100(a) == IF IsFinite(a) THEN Num(a.x * 100) ELSE a

\* numpy division of a non-negative float by an integer count: x/0 is inf,
\* 0/0 is nan (a RuntimeWarning, not an exception)
FDivInt(a, d) ==
    IF IsNan(a) THEN NaN
    ELSE IF d = 0 THEN (IF IsFinite(a) /\ a.x = 0 THEN NaN ELSE Inf)
    ELSE IF a.k = "inf" THEN Inf
    ELSE [k |-> "numer", x |-> (a.x * 1000) \div d]

\* the integer part of the square root
RECURSIVE ISqrt(_)
ISqrt(x) ==
    IF x < 2 THEN x
    ELSE LET s == 2 * ISqrt(x \div 4)
         IN  IF (s + 1) * (s + 1) <= x THEN s + 1 ELSE s

\* np.sqrt of the quotient above; the quotient carries six decimals so that
\* the root has three
FSqrt(q) ==
    IF q.k = "numer" THEN Num(ISqrt(q.x)) ELSE q

\* f"{p:.3f}" and f"{v:.2f}"
Fmt3(a) == IF IsFinite(a) THEN [fmt |-> ".3f", k |-> "num", x |-> a.x]
           ELSE [fmt |-> ".3f", k |-> a.k, x |-> 0]
Fmt2(a) == IF IsFinite(a) THEN [fmt |-> ".2f", k |-> "num", x |-> (a.x + 5) \div 10]
           ELSE [fmt |-> ".2f", k |-> a.k, x |-> 0]

(* ----------------------------- python values -------------------------- *)
None == "None"
\* truth value of an X_name that is None or a str
TruthyStr(s) == s # None /\ s # ""
\* truth value of an X_name that is None or a list of two str; None is <<>>
NoNames == <<>>
TruthyList(l) == Len(l) > 0

RetNone == [kind |-> "None", items |-> <<>>]
RetTuple(t) == [kind |-> "tuple", items |-> t]
Raised == [kind |-> "raise", items |-> <<>>]

NoErr == "none"

Line(kind, names, p) == [kind |-> kind, names |-> names, p |-> p]
NoP == [fmt |-> "", k |-> "", x |-> 0]

\* np.isnan(X).any()
AnyNan(X) == \E i \in 1..Len(X) : IsNan(X[i])

(* ----------------------------- normality_test ------------------------- *)
\* scipy.stats.anderson: significance levels (percent) for the normal
\* distribution
sig_list == <<Num(15000), Num(10000), Num(5000), Num(2500), Num(1000)>>

\* x in sig_list
InList(x, l) == \E i \in 1..Len(l) : FEq(l[i], x)

\* cri_list[np.where(sig_list == x)]: the entries at the matching positions
RECURSIVE Where(_, _, _, _)
Where(cri, sig, x, i) ==
    IF i > Len(sig) THEN <<>>
    ELSE (IF FEq(sig[i], x) THEN <<cri[i]>> ELSE <<>>) \o Where(cri, sig, x, i + 1)

\* the conclusion printed by lines 50-59, pLeAlpha being the value of p<=alpha
NormalityConclusion(pLeAlpha, X_name) ==
    IF pLeAlpha
    THEN IF TruthyStr(X_name)
         THEN Line("Reject H0: the distribution of X_name is NOT normally distributed.", <<X_name>>, NoP)
         ELSE Line("Reject H0: the distribution is NOT normally distributed.", <<>>, NoP)
    ELSE IF TruthyStr(X_name)
         THEN Line("Fail to reject H0: the distribution of X_name is normally distributed.", <<X_name>>, NoP)
         ELSE Line("Fail to reject H0: the distribution is normally distributed.", <<>>, NoP)

H0Normal == Line("H0: The population is normally distributed", <<>>, NoP)

\* the result of one call of normality_test; l is what the library routines
\* return when they are invoked: l.val, l.p for normaltest and shapiro,
\* l.val and l.cri (critical values) for anderson
NormalityResult(X, X_name, test, alpha, l) ==
    IF AnyNan(X)
    THEN [out |-> <<H0Normal>>, warns |-> <<>>, calls |-> <<>>,
          ret |-> Raised, err |-> "AssertionError: Input array must contain no NA"]
    ELSE IF test = "dagnostino" \/ test = "shapiro"
    THEN [out |-> <<H0Normal, NormalityConclusion(FLe(l.p, alpha), X_name)>>,
          warns |-> <<>>,
          calls |-> <<IF test = "dagnostino" THEN "normaltest" ELSE "shapiro">>,
          ret |-> RetTuple(<<l.val, l.p>>), err |-> NoErr]
    ELSE LET w == <<"if test=anderson, no value is returned">>
             p == Where(l.cri, sig_list, Times100(alpha), 1)
             alpha2 == l.val
         IN  IF ~InList(Times100(alpha), sig_list)
             THEN [out |-> <<H0Normal>>, warns |-> w, calls |-> <<"anderson">>,
                   ret |-> Raised, err |-> "AssertionError: alpha must be in sig_list/100"]
             ELSE IF Len(p) # 1
             THEN [out |-> <<H0Normal>>, warns |-> w, calls |-> <<"anderson">>,
                   ret |-> Raised, err |-> "ValueError"]
             ELSE IF test = "anderson"
             THEN [out |-> <<H0Normal, NormalityConclusion(FLe(p[1], alpha2), X_name)>>,
                   warns |-> w, calls |-> <<"anderson">>,
                   ret |-> RetNone, err |-> NoErr]
             ELSE [out |-> <<H0Normal, NormalityConclusion(FLe(p[1], alpha2), X_name)>>,
                   warns |-> w, calls |-> <<"anderson">>,
                   ret |-> Raised, err |-> "UnboundLocalError"]

\* inputs
Samples == {<<Num(1000), Num(2000)>>, <<Num(1000), NaN>>}
XNames == {None, "height"}
NormTests == {"dagnostino", "shapiro", "anderson", "lilliefors"}
Alphas == {Num(10), Num(50), Num(70), Num(1000)}
PValues == {Num(0), Num(10), Num(50), Num(300), Num(1000), NaN}
Statistics == {Num(500), Num(752), Num(1092), NaN}
CriLists == {<<Num(561), Num(631), Num(752), Num(873), Num(1035)>>,
             <<Num(576), Num(656), Num(787), Num(918), Num(1092)>>}

normality_test ==
    /\ fn = "none"
    /\ \E X \in Samples, X_name \in XNames, test \in NormTests, alpha \in Alphas,
       val \in Statistics, p \in PValues, cri \in CriLists :
        LET l == [val |-> val, p |-> p, cri |-> cri]
            r == NormalityResult(X, X_name, test, alpha, l)
        IN  /\ fn' = "normality_test"
            /\ args' = [X |-> X, X_name |-> X_name, test |-> test, alpha |-> alpha]
            /\ lib' = l
            /\ out' = r.out
            /\ warns' = r.warns
            /\ calls' = r.calls
            /\ ret' = r.ret
            /\ err' = r.err

(* ------------------------------ correlation --------------------------- *)
CorrRoutine(test) ==
    CASE test = "pearson" -> "pearsonr"
      [] test = "spearman" -> "spearmanr"
      [] test = "kendall" -> "kendalltau"
      [] test = "pointbiserial" -> "pointbiserialr"

CorrSupported(test) == test \in {"pearson", "spearman", "kendall", "pointbiserial"}

H0Corr == Line("H0: The two variables are not correlated", <<>>, NoP)

\* the conclusion printed by lines 102-112
CorrConclusion(p, alpha, X_name) ==
    IF TruthyList(X_name)
    THEN IF FGt(p, alpha)
         THEN Line("Fail to reject H0: X_name[0] and X_name[1] are uncorrelated with p=", X_name, Fmt3(p))
         ELSE Line("Reject H0: X_name[0] and X_name[1] are correlated with  p=", X_name, Fmt3(p))
    ELSE IF FGt(p, alpha)
         THEN Line("Fail to reject H0: the two variables are uncorrelated with p=", <<>>, Fmt3(p))
         ELSE Line("Reject H0: the two variables are correlated with  p=", <<>>, Fmt3(p))

\* the result of one call of correlation; l.val, l.p is what the selected
\* routine returns.  No branch of lines 90-97 binds val and p for a test
\* name outside the four: the first use of p (line 103) or of val (line 113)
\* raises UnboundLocalError.
CorrelationResult(X0, X1, X_name, test, alpha, print_result, l) ==
    IF CorrSupported(test)
    THEN [out |-> IF print_result
                  THEN <<H0Corr, CorrConclusion(l.p, alpha, X_name)>>
                  ELSE <<>>,
          calls |-> <<CorrRoutine(test)>>,
          ret |-> RetTuple(<<l.val, l.p>>), err |-> NoErr]
    ELSE [out |-> IF print_result THEN <<H0Corr>> ELSE <<>>,
          calls |-> <<>>,
          ret |-> Raised, err |-> "UnboundLocalError"]

NamePairs == {NoNames, <<"height", "weight">>}
CorrTests == {"pearson", "spearman", "kendall", "pointbiserial", "cramersv"}
CorrStats == {Num(-1000), Num(0), Num(500), Num(1000), NaN}

correlation ==
    /\ fn = "none"
    /\ \E X0 \in Samples, X1 \in Samples, X_name \in NamePairs, test \in CorrTests,
       alpha \in Alphas, print_result \in BOOLEAN, val \in CorrStats, p \in PValues :
        LET l == [val |-> val, p |-> p]
            r == CorrelationResult(X0, X1, X_name, test, alpha, print_result, l)
        IN  /\ fn' = "correlation"
            /\ args' = [X0 |-> X0, X1 |-> X1, X_name |-> X_name, test |-> test,
                        alpha |-> alpha, print_result |-> print_result]
            /\ lib' = l
            /\ out' = r.out
            /\ warns' = <<>>
            /\ calls' = r.calls
            /\ ret' = r.ret
            /\ err' = r.err

(* ------------------------------- cramers_v ---------------------------- *)
\* the distinct values of a sample
Uniques(X) == {X[i] : i \in 1..Len(X)}

Min(a, b) == IF a <= b THEN a ELSE b

RECURSIVE SumOver(_, _)
SumOver(f, S) ==
    IF S = {} THEN 0
    ELSE LET e == CHOOSE e \in S : TRUE IN f[e] + SumOver(f, S \ {e})

\* pd.crosstab(X0, X1): one row per distinct value of X0, one column per
\* distinct value of X1, each cell the number of positions with that pair
Crosstab(X0, X1) ==
    [index |-> Uniques(X0), columns |-> Uniques(X1),
     cell |-> [c \in Uniques(X0) \X Uniques(X1) |->
                 Cardinality({i \in 1..Len(X0) : X0[i] = c[1] /\ X1[i] = c[2]})]]

\* crosstab.sum().sum()
CrosstabTotal(ct) == SumOver(ct.cell, DOMAIN ct.cell)

\* min(crosstab.shape) - 1
Dof0(ct) == Min(Cardinality(ct.index), Cardinality(ct.columns)) - 1

\* the effect size with the breakpoints of dof0 = 4 used for dof0 = 3 as well
EffectSizeDof3As4(dof0, v) ==
    IF dof0 = 1
    THEN IF FLt(v, Num(300)) THEN "small" ELSE IF FLt(v, Num(500)) THEN "medium" ELSE "large"
    ELSE IF dof0 = 2
    THEN IF FLt(v, Num(210)) THEN "small" ELSE IF FLt(v, Num(350)) THEN "medium" ELSE "large"
    ELSE IF FLt(v, Num(150)) THEN "small" ELSE IF FLt(v, Num(250)) THEN "medium" ELSE "large"

\* lines 142-176: the effect size of a significant association
EffectSize(dof0, v) ==
    IF dof0 = 1
    THEN IF FLt(v, Num(300)) THEN "small" ELSE IF FLt(v, Num(500)) THEN "medium" ELSE "large"
    ELSE IF dof0 = 2
    THEN IF FLt(v, Num(210)) THEN "small" ELSE IF FLt(v, Num(350)) THEN "medium" ELSE "large"
    ELSE IF dof0 = 3
    THEN IF FLt(v, Num(170)) THEN "small" ELSE IF FLt(v, Num(290)) THEN "medium" ELSE "large"
    ELSE IF dof0 = 4
    THEN IF FLt(v, Num(150)) THEN "small" ELSE IF FLt(v, Num(250)) THEN "medium" ELSE "large"
    ELSE IF FLt(v, Num(150)) THEN "small" ELSE IF FLt(v, Num(250)) THEN "medium" ELSE "large"

\* eff_size = np.nan
EffNaN == "nan"

\* v with the division guarded: 0 for a table of one row or one column
CramersStatisticGuarded(chitest, n, dof0) ==
    IF n * dof0 = 0 THEN Num(0) ELSE FSqrt(FDivInt(chitest, n * dof0))

\* v = np.sqrt(chitest/(n*dof0))
CramersStatistic(chitest, n, dof0) == FSqrt(FDivInt(chitest, n * dof0))

\* the result of one call of cramers_v; l.chitest, l.p is what
\* chi2_contingency returns for the crosstab
CramersResult(X0, X1, X_name, alpha, print_result, l) ==
    LET crosstab == Crosstab(X0, X1)
        n == CrosstabTotal(crosstab)
        dof0 == Dof0(crosstab)
        v == CramersStatistic(l.chitest, n, dof0)
        sig == FLe(l.p, alpha)
        eff_size == IF sig THEN EffectSize(dof0, v) ELSE EffNaN
        printed ==
            IF sig
            THEN <<Line("crosstab", <<>>, NoP),
                   IF TruthyList(X_name)
                   THEN Line("X_name[0] is dependent on X_name[1] with p = ", X_name, Fmt3(l.p))
                   ELSE Line("Association relationship with p=", <<>>, Fmt3(l.p)),
                   [kind |-> "With a eff_size effect size v = for dof = ",
                    names |-> <<eff_size>>, p |-> Fmt2(v), dof |-> dof0]>>
            ELSE <<Line("crosstab", <<>>, NoP),
                   IF TruthyList(X_name)
                   THEN Line("No association between X_name[0] and X_name[1]", X_name, NoP)
                   ELSE Line("No association between 2 variables", <<>>, NoP)>>
    IN  [out |-> IF print_result THEN printed ELSE <<>>,
         calls |-> <<"chi2_contingency">>,
         ret |-> RetTuple(<<v, l.p, eff_size>>), err |-> NoErr]

\* categorical samples: NObs observations cycling through k categories
NObs == MaxCat
CatSample(k) == [i \in 1..NObs |-> ((i - 1) % k) + 1]
CatSamples == {CatSample(k) : k \in 1..MaxCat}
ChiValues == {Num(0), Num(500), Num(540), Num(1000), Num(1500), Num(3000)}

cramers_v ==
    /\ fn = "none"
    /\ \E X0 \in CatSamples, X1 \in CatSamples, X_name \in NamePairs, alpha \in Alphas,
       print_result \in BOOLEAN, chitest \in ChiValues, p \in PValues :
        LET l == [chitest |-> chitest, p |-> p]
            r == CramersResult(X0, X1, X_name, alpha, print_result, l)
        IN  /\ fn' = "cramers_v"
            /\ args' = [X0 |-> X0, X1 |-> X1, X_name |-> X_name,
                        alpha |-> alpha, print_result |-> print_result]
            /\ lib' = l
            /\ out' = r.out
            /\ warns' = <<>>
            /\ calls' = r.calls
            /\ ret' = r.ret
            /\ err' = r.err

(* --------------------------- generate_sym_matrix ---------------------- *)
\* df[k].nunique() and df[k].count(): both leave the missing values out
NUnique(X) == Cardinality({X[i] : i \in {n \in 1..Len(X) : ~IsNan(X[n])}})
Count(X) == Cardinality({n \in 1..Len(X) : ~IsNan(X[n])})

\* df[k].nunique()/df[k].count(), to three decimals; 0/0 is nan
Ratio(u, c) == IF c = 0 THEN NaN ELSE Num((u * 1000) \div c)

\* the check with countval<=threshold
AllCategoricalLe(df, col, threshold) ==
    \A n \in 1..Len(col) :
        FLe(Ratio(NUnique(df[col[n]]), Count(df[col[n]])), threshold)

\* all(countval<threshold) for countval computed over every k in col
AllCategorical(df, col, threshold) ==
    \A n \in 1..Len(col) :
        FLt(Ratio(NUnique(df[col[n]]), Count(df[col[n]])), threshold)

\* the check of the first selected column only
AnyNAFirst(df, col) == Len(col) > 0 /\ AnyNan(df[col[1]])

\* df[col].isna().any(axis=1).any()
AnyNA(df, col) == \E n \in 1..Len(col) : AnyNan(df[col[n]])

\* pd.DataFrame()
EmptyFrame == [index |-> <<>>, columns |-> <<>>, cell |-> <<>>]

InSeq(x, q) == \E n \in 1..Len(q) : q[n] = x
SeqSet(q) == {q[n] : n \in 1..Len(q)}

\* df_result.loc[j,i] = v
SetLocTransposed(d, i, j, v) ==
    LET index == IF InSeq(i, d.index) THEN d.index ELSE Append(d.index, i)
        columns == IF InSeq(j, d.columns) THEN d.columns ELSE Append(d.columns, j)
    IN  [index |-> index, columns |-> columns,
         cell |-> [c \in SeqSet(index) \X SeqSet(columns) |->
                     IF c = <<j, i>> THEN v
                     ELSE IF c \in DOMAIN d.cell THEN d.cell[c]
                     ELSE NaN]]

\* df_result.loc[i,j] = v: a missing row label or column label is appended,
\* the new cells are NaN, then the cell is set
SetLoc(d, i, j, v) ==
    LET index == IF InSeq(i, d.index) THEN d.index ELSE Append(d.index, i)
        columns == IF InSeq(j, d.columns) THEN d.columns ELSE Append(d.columns, j)
    IN  [index |-> index, columns |-> columns,
         cell |-> [c \in SeqSet(index) \X SeqSet(columns) |->
                     IF c = <<i, j>> THEN v
                     ELSE IF c \in DOMAIN d.cell THEN d.cell[c]
                     ELSE NaN]]

\* the pairs (i, j) in the order of "for i in col: for j in col", from the
\* n-th on
RECURSIVE LoopPairs(_, _)
LoopPairs(col, n) ==
    IF n > Len(col) * Len(col) THEN <<>>
    ELSE <<<<col[((n - 1) \div Len(col)) + 1], col[((n - 1) % Len(col)) + 1]>>>>
         \o LoopPairs(col, n + 1)

\* lines 220-227: one iteration of the loop body on the state st of the call
LoopBody(st, df, col, test, alpha, threshold, l, i, j) ==
    IF test = "cramersv"
    THEN IF ~AllCategorical(df, col, threshold)
         THEN [st EXCEPT !.calls = Append(@, "countval"),
                         !.err = "AssertionError: Cramers only works for categorical data"]
         ELSE LET r == CramersResult(df[i], df[j], NoNames, alpha, FALSE, l[<<i, j>>])
              IN  [st EXCEPT !.calls = Append(@, "countval") \o r.calls,
                             !.df_result = SetLoc(@, i, j, r.ret.items[1])]
    ELSE LET r == CorrelationResult(df[i], df[j], NoNames, test, alpha, FALSE, l[<<i, j>>])
         IN  IF r.err # NoErr
             THEN [st EXCEPT !.calls = @ \o r.calls, !.err = r.err]
             ELSE [st EXCEPT !.calls = @ \o r.calls,
                             !.df_result = SetLoc(@, i, j, r.ret.items[1])]

\* lines 218-227: the loop over the remaining pairs; an exception ends it
RECURSIVE Loop(_, _, _, _, _, _, _, _)
Loop(st, pairs, df, col, test, alpha, threshold, l) ==
    IF pairs = <<>> \/ st.err # NoErr THEN st
    ELSE Loop(LoopBody(st, df, col, test, alpha, threshold, l, pairs[1][1], pairs[1][2]),
              Tail(pairs), df, col, test, alpha, threshold, l)

\* sns.heatmap(df_result, ..., yticklabels=col, xticklabels=col).set(title=...)
Heatmap(d, col, test) == [data |-> d, ticklabels |-> col, title |-> test]

\* the result of one call of generate_sym_matrix; l[<<i, j>>] is what the
\* library routine returns when it is given (df[i], df[j]); hm_ok tells
\* whether the plotting library accepts a table without rows (it computes
\* the colour range as the minimum and maximum of the cells)
SymMatrixResult(df, col, test, alpha, threshold, l, hm_ok) ==
    IF AnyNA(df, col)
    THEN [calls |-> <<>>, ret |-> Raised,
          err |-> "AssertionError: Data contains NA, must be removed before performing tests"]
    ELSE LET st == Loop([df_result |-> EmptyFrame, calls |-> <<>>, err |-> NoErr],
                        LoopPairs(col, 1), df, col, test, alpha, threshold, l)
         IN  IF st.err # NoErr
             THEN [calls |-> st.calls, ret |-> Raised, err |-> st.err]
             ELSE IF st.df_result = EmptyFrame /\ ~hm_ok
             THEN [calls |-> st.calls \o <<"heatmap">>, ret |-> Raised, err |-> "ValueError"]
             ELSE [calls |-> st.calls \o <<"heatmap">>,
                   ret |-> RetTuple(<<st.df_result, Heatmap(st.df_result, col, test)>>),
                   err |-> NoErr]

\* inputs: a table of two columns and two rows
ColNames == {"a", "b"}
ColData == {<<Num(1000), Num(1000)>>, <<Num(1000), Num(2000)>>, <<Num(1000), NaN>>}
ColLists == UNION {[1..n -> ColNames] : n \in 0..MaxCols}
MatrixTests == {"pearson", "spearman", "kendall", "pointbiserial", "cramersv", "cramers"}
MatrixAlphas == {Num(50), Num(1000)}
Thresholds == {Num(500), Num(1000), Num(1500)}
MatrixStats == {Num(0), Num(500)}
MatrixP == Num(10)

\* what the routine selected by test returns for the value x
LibReturn(test, x) ==
    IF test = "cramersv" THEN [chitest |-> x, p |-> MatrixP] ELSE [val |-> x, p |-> MatrixP]

generate_sym_matrix ==
    /\ fn = "none"
    /\ \E df \in [ColNames -> ColData], col \in ColLists, test \in MatrixTests,
          alpha \in MatrixAlphas, threshold \in Thresholds,
          x \in [ColNames \X ColNames -> MatrixStats],
          hm_ok \in BOOLEAN :
        LET l == [c \in ColNames \X ColNames |-> LibReturn(test, x[c])]
            r == SymMatrixResult(df, col, test, alpha, threshold, l, hm_ok)
        IN  /\ fn' = "generate_sym_matrix"
            /\ args' = [df |-> df, col |-> col, test |-> test, alpha |-> alpha,
                        threshold |-> threshold]
            /\ (col # <<>> => hm_ok)
            /\ lib' = [pair |-> l, heatmap_ok |-> hm_ok]
            /\ out' = <<>>
            /\ warns' = <<>>
            /\ calls' = r.calls
            /\ ret' = r.ret
            /\ err' = r.err

Init ==
    /\ fn = "none"
    /\ args = <<>>
    /\ lib = <<>>
    /\ out = <<>>
    /\ warns = <<>>
    /\ calls = <<>>
    /\ ret = RetNone
    /\ err = NoErr

\* the call is over: nothing is kept from one call to the next
Return ==
    /\ fn # "none"
    /\ fn' = "none"
    /\ args' = <<>>
    /\ lib' = <<>>
    /\ out' = <<>>
    /\ warns' = <<>>
    /\ calls' = <<>>
    /\ ret' = RetNone
    /\ err' = NoErr

Next == normality_test \/ correlation \/ cramers_v \/ generate_sym_matrix \/ Return

Spec == Init /\ [][Next]_vars
(* ============================== properties ============================ *)
\* the comparisons of the statements below, on values that are finite or NaN
Leq(a, b) == a.k = "num" /\ b.k = "num" /\ a.x <= b.x
Greater(a, b) == a.k = "num" /\ b.k = "num" /\ a.x > b.x
HasMissing(X) == \E n \in 1..Len(X) : X[n].k = "nan"

RejectNormal(line) ==
    line.kind \in {"Reject H0: the distribution of X_name is NOT normally distributed.",
                   "Reject H0: the distribution is NOT normally distributed."}
FailToRejectNormal(line) ==
    line.kind \in {"Fail to reject H0: the distribution of X_name is normally distributed.",
                   "Fail to reject H0: the distribution is normally distributed."}
\* the number of conclusions among the printed lines
Conclusions(o) ==
    Cardinality({n \in 1..Len(o) : RejectNormal(o[n]) \/ FailToRejectNormal(o[n])})

NonAndersonCall ==
    /\ fn = "normality_test"
    /\ args.test \in {"dagnostino", "shapiro"}
    /\ ~HasMissing(args.X)

\* C1: normality_test with the D'Agostino or the Shapiro method on a sample
\* without missing values prints "Reject H0" exactly when p <= alpha (p equal
\* to alpha included) and "Fail to reject H0" otherwise, and returns the
\* (statistic, p) of the underlying test unchanged, whatever alpha and the
\* label are.
C1_NonAndersonDecision ==
    NonAndersonCall =>
        /\ err = NoErr
        /\ Conclusions(out) = 1
        /\ RejectNormal(out[Len(out)]) <=> Leq(lib.p, args.alpha)
        /\ FailToRejectNormal(out[Len(out)]) <=> ~Leq(lib.p, args.alpha)
        /\ ret = RetTuple(<<lib.val, lib.p>>)

\* a D'Agostino or Shapiro call whose p equals alpha has printed "Reject H0"
C1_Witness ==
    /\ NonAndersonCall
    /\ lib.p.k = "num" /\ lib.p = args.alpha
    /\ RejectNormal(out[2])
    /\ ret = RetTuple(<<lib.val, lib.p>>)

AndersonCall ==
    /\ fn = "normality_test"
    /\ args.test = "anderson"
    /\ ~HasMissing(args.X)

\* alpha, as a percentage, is the n-th significance level of the test
LevelAt(n) == sig_list[n].x = args.alpha.x * 100
SupportedAlpha == \E n \in 1..Len(sig_list) : LevelAt(n)

\* C2: normality_test with the Anderson-Darling method on a sample without
\* missing values: when alpha as a percentage is not one of the significance
\* levels of the test the call fails with the unsupported-alpha assertion
\* error, prints no conclusion and returns nothing; when it is one of them
\* the call succeeds, prints exactly one conclusion and returns None.
C2_AndersonAlpha ==
    AndersonCall =>
        IF SupportedAlpha
        THEN err = NoErr /\ Conclusions(out) = 1 /\ ret = RetNone
        ELSE /\ err = "AssertionError: alpha must be in sig_list/100"
             /\ Conclusions(out) = 0
             /\ ret = Raised

\* an Anderson-Darling call with alpha = 0.05 has succeeded and returned None
C2_Witness ==
    /\ AndersonCall
    /\ args.alpha = Num(50)
    /\ err = NoErr /\ Conclusions(out) = 1 /\ ret = RetNone

\* C3: normality_test with the Anderson-Darling method and a supported alpha
\* prints "Reject H0" exactly when the statistic exceeds the critical value
\* looked up for alpha, and "Fail to reject H0" whenever the statistic is less
\* than or equal to that critical value.
C3_AndersonDecision ==
    AndersonCall =>
        \A n \in 1..Len(sig_list) :
            LevelAt(n) =>
                /\ Conclusions(out) = 1
                /\ RejectNormal(out[Len(out)]) <=> Greater(lib.val, lib.cri[n])
                /\ Leq(lib.val, lib.cri[n]) => FailToRejectNormal(out[Len(out)])
CramersCall == fn = "cramers_v"

\* min(#rows, #cols) - 1 of the contingency table of the two samples
TableDof ==
    LET r == Cardinality({args.X0[n] : n \in 1..Len(args.X0)})
        c == Cardinality({args.X1[n] : n \in 1..Len(args.X1)})
    IN  (IF r <= c THEN r ELSE c) - 1

\* the breakpoints (small, medium) of the effect size, in thousandths
Breakpoints(d) ==
    CASE d = 1 -> <<300, 500>>
      [] d = 2 -> <<210, 350>>
      [] d = 3 -> <<170, 290>>
      [] d >= 4 -> <<150, 250>>

Band(d, v) ==
    IF v.k = "num" /\ v.x < Breakpoints(d)[1] THEN "small"
    ELSE IF v.k = "num" /\ v.x < Breakpoints(d)[2] THEN "medium"
    ELSE "large"

\* C4: the effect size returned by cramers_v is a function of (p, alpha,
\* dof0, v) only: unset (NaN) whenever p > alpha; whenever p <= alpha it is
\* "small" below the small breakpoint, "medium" below the medium breakpoint,
\* else "large", with breakpoints (0.30, 0.50) for dof0 = 1, (0.21, 0.35) for
\* dof0 = 2, (0.17, 0.29) for dof0 = 3 and (0.15, 0.25) for dof0 >= 4;
\* print_result and the labels never change it.
C4_EffectSize ==
    CramersCall =>
        /\ ret.kind = "tuple" /\ Len(ret.items) = 3 /\ ret.items[2] = lib.p
        /\ Greater(lib.p, args.alpha) => ret.items[3] = EffNaN
        /\ (Leq(lib.p, args.alpha) /\ TableDof >= 1)
               => ret.items[3] = Band(TableDof, ret.items[1])

\* a significant association with dof0 = 3 and 0.15 <= v < 0.17 is "small"
C4_Witness ==
    /\ CramersCall
    /\ Leq(lib.p, args.alpha)
    /\ TableDof = 3
    /\ ret.items[1].k = "num" /\ ret.items[1].x >= 150 /\ ret.items[1].x < 170
    /\ ret.items[3] = "small"
    /\ ~args.print_result

MatrixCall == fn = "generate_sym_matrix"

SupportedMatrixTest ==
    args.test \in {"pearson", "spearman", "kendall", "pointbiserial", "cramersv"}

SelectedMissing == \E n \in 1..Len(args.col) : HasMissing(args.df[args.col[n]])

\* distinct_count / non_null_count of the column is strictly below the
\* threshold (the columns of the statement have no missing value)
BelowThreshold(X) ==
    /\ Len(X) > 0
    /\ Cardinality({X[n] : n \in 1..Len(X)}) * 1000 < args.threshold.x * Len(X)

AllBelowThreshold == \A n \in 1..Len(args.col) : BelowThreshold(args.df[args.col[n]])

\* the preconditions of generate_sym_matrix hold
MatrixPreconditions ==
    /\ MatrixCall
    /\ SupportedMatrixTest
    /\ ~SelectedMissing
    /\ args.test = "cramersv" => AllBelowThreshold

\* the statistic the selected test returns for (column i, column j)
PairStatistic(i, j) ==
    IF args.test = "cramersv"
    THEN LET r == Cardinality({args.df[i][n] : n \in 1..Len(args.df[i])})
             c == Cardinality({args.df[j][n] : n \in 1..Len(args.df[j])})
             d == (IF r <= c THEN r ELSE c) - 1
         IN  CramersStatistic(lib.pair[<<i, j>>].chitest, Len(args.df[i]), d)
    ELSE lib.pair[<<i, j>>].val

\* every cell [i, j] of the returned table, for i and j in the list, holds
\* the statistic of (column i, column j)
CellsHoldPairStatistic ==
    \A m \in 1..Len(args.col), n \in 1..Len(args.col) :
        LET c == <<args.col[m], args.col[n]>>
        IN  /\ c \in DOMAIN ret.items[1].cell
            /\ ret.items[1].cell[c] = PairStatistic(c[1], c[2])

\* the names of a list, each once, in the order of first occurrence
RECURSIVE FirstOccurrences(_, _)
FirstOccurrences(q, n) ==
    IF n > Len(q) THEN <<>>
    ELSE (IF \E m \in 1..(n - 1) : q[m] = q[n] THEN <<>> ELSE <<q[n]>>)
         \o FirstOccurrences(q, n + 1)

\* the call returns unless the column list is empty (the table then has no
\* row and the outcome is the plotting library's)
Returns == args.col # <<>> => err = NoErr

CategoricalError == "AssertionError: Cramers only works for categorical data"

CorrelationCall ==
    /\ fn = "correlation"
    /\ args.test \in {"pearson", "spearman", "kendall", "pointbiserial"}

Correlated(line) ==
    line.kind \in {"Reject H0: X_name[0] and X_name[1] are correlated with  p=",
                   "Reject H0: the two variables are correlated with  p="}
Uncorrelated(line) ==
    line.kind \in {"Fail to reject H0: X_name[0] and X_name[1] are uncorrelated with p=",
                   "Fail to reject H0: the two variables are uncorrelated with p="}

\* C7: correlation with a supported test returns the (statistic, p) of the
\* underlying routine whatever print_result, alpha and the labels are; with
\* print_result false it prints nothing, with print_result true it prints the
\* null hypothesis line and then exactly one conclusion, "correlated" when
\* p <= alpha and "uncorrelated" otherwise.
C7_CorrelationFrame ==
    CorrelationCall =>
        /\ err = NoErr
        /\ ret = RetTuple(<<lib.val, lib.p>>)
        /\ ~args.print_result => out = <<>>
        /\ args.print_result =>
               /\ Len(out) = 2
               /\ out[1] = H0Corr
               /\ Correlated(out[2]) <=> Leq(lib.p, args.alpha)
               /\ Uncorrelated(out[2]) <=> ~Leq(lib.p, args.alpha)

NAError(e) ==
    e \in {"AssertionError: Input array must contain no NA",
           "AssertionError: Data contains NA, must be removed before performing tests"}
AlphaError == "AssertionError: alpha must be in sig_list/100"
PreconditionError(e) == NAError(e) \/ e = AlphaError \/ e = CategoricalError

StatisticalRoutine(c) ==
    c \in {"normaltest", "shapiro", "anderson", "pearsonr", "spearmanr", "kendalltau",
           "pointbiserialr", "chi2_contingency"}

\* C8 as stated: in a call that ends with a precondition failure (missing
\* value, unsupported alpha, non-categorical column) no statistical routine
\* has been invoked before the error is raised.
C8_FailBeforeAnyRoutine ==
    PreconditionError(err) => \A n \in 1..Len(calls) : ~StatisticalRoutine(calls[n])

\* C8 amended: a sample or a selected column with a missing value makes
\* normality_test and generate_sym_matrix fail before any statistical routine
\* is invoked, and so does a non-categorical column for "cramersv"; the
\* unsupported-alpha failure is raised after exactly one invocation of the
\* Anderson-Darling routine (whose result supplies the supported levels) and
\* before any conclusion is printed.
C8_FailFast ==
    /\ (fn = "normality_test" /\ HasMissing(args.X)) => (NAError(err) /\ calls = <<>>)
    /\ (MatrixCall /\ SelectedMissing) => (NAError(err) /\ calls = <<>>)
    /\ NAError(err) => calls = <<>>
    /\ err = CategoricalError => \A n \in 1..Len(calls) : ~StatisticalRoutine(calls[n])
    /\ err = AlphaError => (calls = <<"anderson">> /\ Conclusions(out) = 0)

\* a call over two columns, the second with a missing value, has failed
\* before any routine
C8_Witness ==
    /\ MatrixCall
    /\ Len(args.col) = 2
    /\ ~HasMissing(args.df[args.col[1]]) /\ HasMissing(args.df[args.col[2]])
    /\ NAError(err)
    /\ calls = <<>>

\* C9: cramers_v on a contingency table whose smaller dimension is 1
\* (dof0 = 0) raises no error and returns a triple whose v is not finite,
\* for every alpha and every print_result.
C9_DegenerateTable ==
    (CramersCall /\ TableDof = 0) =>
        /\ err = NoErr
        /\ ret.kind = "tuple" /\ Len(ret.items) = 3
        /\ ret.items[1].k \in {"nan", "inf"}

\* a printing call on a one-row table with p <= alpha has returned v = NaN
C9_Witness ==
    /\ CramersCall /\ TableDof = 0
    /\ args.print_result /\ Leq(lib.p, args.alpha)
    /\ err = NoErr
    /\ ret.items[1] = NaN

\* C10: normality_test dispatches only on its supported names: the
\* Anderson-Darling routine is invoked and its conclusion printed only when
\* test is exactly "anderson"; for a name that is none of the three no
\* statistical test is run and no conclusion is printed, so every call that
\* prints a conclusion returns normally.
C10_ClosedDispatch ==
    fn = "normality_test" =>
        /\ (\E n \in 1..Len(calls) : calls[n] = "anderson") => args.test = "anderson"
        /\ args.test \notin {"dagnostino", "shapiro", "anderson"}
               => (calls = <<>> /\ Conclusions(out) = 0)
        /\ Conclusions(out) > 0 => err = NoErr
====
